---- MODULE Spec2Model ----
(***************************************************************************)
(* A model of openshift.helper.KubernetesObjectHelper                      *)
(* (src/openshift/helper/__init__.py): the lifecycle operations            *)
(* get_object / create_object / patch_object / delete_object with their    *)
(* wait loops, update_object, the operation resolver __lookup_method, the  *)
(* property map properties_from_model_obj, the sanitizer                   *)
(* __remove_creation_timestamps, and the deep comparator objects_match /   *)
(* __match_dict / __match_list.                                            *)
(*                                                                         *)
(* One behaviour is one helper (constructed for a kind) on which a caller  *)
(* makes one call; the cluster answers every transport call                *)
(* nondeterministically.                                                   *)
(***************************************************************************)
EXTENDS Integers, Sequences, FiniteSets, TLC

VARIABLES
    kind,        \* self.kind, fixed at construction
    properties,  \* self.properties, fixed at construction
    pc,          \* position of the call: idle, *_wait, returned, raised
    op,          \* the method the caller invoked
    namespace,   \* the namespace argument of the call
    wait,        \* the wait argument
    timeout,     \* the timeout argument
    tries,       \* local `tries` of a wait loop
    half,        \* local `half` of a wait loop
    polls,       \* number of get_object polls the wait loop has made
    clock,       \* time spent in time.sleep by the wait loop
    return_obj,  \* local `return_obj` / the value the call returned
    last_seen,   \* the last object a poll of the wait loop observed
    error,       \* the exception the call raised
    answer,      \* the cluster's answer to the last transport call made
    method,      \* what __lookup_method resolved for the call
    sent,        \* the call made on the resolved method
    given,       \* the object as the caller supplied it
    k8s_obj,     \* the caller's object, which the helper changes in place
    obj_a,       \* objects_match: first argument
    obj_b,       \* objects_match: second argument
    match        \* objects_match: the value returned

vars == <<kind, properties, pc, op, namespace, wait, timeout, tries, half, polls, clock,
          return_obj, last_seen, error, answer, method, sent, given, k8s_obj, obj_a, obj_b, match>>

(***************************************************************************)
(* Bounds of the model.                                                    *)
(***************************************************************************)
MaxLen == 3        \* longest collection of scalars / of mappings compared
MaxNest == 2       \* longest collection of collections compared
MaxTimeout == 7    \* largest timeout argument of a wait loop

(***************************************************************************)
(* Python values.  Every value is a tagged tuple, so that values of        *)
(* different Python types can sit in one field: a scalar, None, a list, a  *)
(* dict, or a model object (its type name and its attribute values).       *)
(***************************************************************************)
None == <<"none", "">>
Scalar(v) == <<"scalar", v>>
List(s) == <<"list", s>>
Dict(f) == <<"dict", f>>
Obj(ty, f) == <<"obj", ty, f>>

Tag(v) == v[1]
IsNone(v) == Tag(v) = "none"

\* Python truthiness of the values the comparator tests with `not`: None,
\* an empty list and an empty dict are falsy; a model object is truthy.
Falsy(v) ==
    \/ Tag(v) = "none"
    \/ Tag(v) \in {"list", "dict"} /\ DOMAIN v[2] = {}

\* obj.to_dict() of the generated models: nested model objects, and model
\* objects held in lists and dicts, become dicts of their fields.
RECURSIVE to_dict(_)
to_dict(v) ==
    CASE Tag(v) = "obj"  -> Dict([k \in DOMAIN v[3] |-> to_dict(v[3][k])])
      [] Tag(v) = "list" -> List([i \in DOMAIN v[2] |-> to_dict(v[2][i])])
      [] Tag(v) = "dict" -> Dict([k \in DOMAIN v[2] |-> to_dict(v[2][k])])
      [] OTHER           -> v

\* type(obj).__name__
TypeName(v) == v[2]

(***************************************************************************)
(* The deep comparator.                                                    *)
(***************************************************************************)
\* item_a == item_b / item_a.items() == item_b.items() of two dicts: the
\* same keys, and equal values under every key.
ItemsEqual(item_a, item_b) ==
    /\ DOMAIN item_a[2] = DOMAIN item_b[2]
    /\ \A k \in DOMAIN item_a[2] : item_a[2][k] = item_b[2][k]

\* set(list_x) of a list of scalars
SetOf(list_x) == {list_x[2][i] : i \in DOMAIN list_x[2]}

RECURSIVE match_list(_, _)
RECURSIVE match_dict(_, _)

\* match_list comparing collections of scalars element by element, in order
match_list_ordered(list_a, list_b) ==
    IF Falsy(list_a) /\ Falsy(list_b) THEN TRUE
    ELSE IF Falsy(list_a) \/ Falsy(list_b) THEN FALSE
    ELSE IF Tag(list_a[2][1]) = "dict" THEN
        \A i \in DOMAIN list_a[2] :
            \E j \in DOMAIN list_b[2] : ItemsEqual(list_a[2][i], list_b[2][j])
    ELSE IF Tag(list_a[2][1]) = "list" THEN
        \A i \in DOMAIN list_a[2] :
            \E j \in DOMAIN list_b[2] : match_list(list_a[2][i], list_b[2][j])
    ELSE list_a[2] = list_b[2]

\* match_list checking the containment of mappings in both directions
match_list_both_ways(list_a, list_b) ==
    IF Falsy(list_a) /\ Falsy(list_b) THEN TRUE
    ELSE IF Falsy(list_a) \/ Falsy(list_b) THEN FALSE
    ELSE IF Tag(list_a[2][1]) = "dict" THEN
        /\ \A i \in DOMAIN list_a[2] :
              \E j \in DOMAIN list_b[2] : ItemsEqual(list_a[2][i], list_b[2][j])
        /\ \A j \in DOMAIN list_b[2] :
              \E i \in DOMAIN list_a[2] : ItemsEqual(list_a[2][i], list_b[2][j])
    ELSE IF Tag(list_a[2][1]) = "list" THEN
        \A i \in DOMAIN list_a[2] :
            \E j \in DOMAIN list_b[2] : match_list(list_a[2][i], list_b[2][j])
    ELSE SetOf(list_a) = SetOf(list_b)

match_list(list_a, list_b) ==
    IF Falsy(list_a) /\ Falsy(list_b) THEN TRUE
    ELSE IF Falsy(list_a) \/ Falsy(list_b) THEN FALSE
    ELSE IF Tag(list_a[2][1]) = "dict" THEN
        \* for item_a in list_a: found = some item_b equal to it
        \A i \in DOMAIN list_a[2] :
            \E j \in DOMAIN list_b[2] : ItemsEqual(list_a[2][i], list_b[2][j])
    ELSE IF Tag(list_a[2][1]) = "list" THEN
        \A i \in DOMAIN list_a[2] :
            \E j \in DOMAIN list_b[2] : match_list(list_a[2][i], list_b[2][j])
    ELSE SetOf(list_a) = SetOf(list_b)

\* MatchKey without the branch for a field that is None on both sides
MatchKey_none_mismatch(key_a, value_a, dict_b) ==
    IF key_a \notin DOMAIN dict_b[2] THEN FALSE
    ELSE IF IsNone(value_a) \/ IsNone(dict_b[2][key_a]) THEN FALSE
    ELSE IF Tag(value_a) = "list" THEN match_list(value_a, dict_b[2][key_a])
    ELSE IF Tag(value_a) = "dict" THEN match_dict(value_a, dict_b[2][key_a])
    ELSE ~(value_a # dict_b[2][key_a])

\* MatchKey without the final comparison of scalars
MatchKey_scalars_ignored(key_a, value_a, dict_b) ==
    IF key_a \notin DOMAIN dict_b[2] THEN FALSE
    ELSE IF IsNone(value_a) /\ IsNone(dict_b[2][key_a]) THEN TRUE
    ELSE IF IsNone(value_a) \/ IsNone(dict_b[2][key_a]) THEN FALSE
    ELSE IF Tag(value_a) = "list" THEN match_list(value_a, dict_b[2][key_a])
    ELSE IF Tag(value_a) = "dict" THEN match_dict(value_a, dict_b[2][key_a])
    ELSE TRUE

\* one iteration of the loop over dict_a.items(): TRUE when the loop goes on
\* to the next key, FALSE when it sets match = False and breaks
MatchKey(key_a, value_a, dict_b) ==
    IF key_a \notin DOMAIN dict_b[2] THEN FALSE
    ELSE IF IsNone(value_a) /\ IsNone(dict_b[2][key_a]) THEN TRUE
    ELSE IF IsNone(value_a) \/ IsNone(dict_b[2][key_a]) THEN FALSE
    ELSE IF Tag(value_a) = "list" THEN match_list(value_a, dict_b[2][key_a])
    ELSE IF Tag(value_a) = "dict" THEN match_dict(value_a, dict_b[2][key_a])
    ELSE ~(value_a # dict_b[2][key_a])

match_dict(dict_a, dict_b) ==
    IF Falsy(dict_a) /\ Falsy(dict_b) THEN TRUE
    ELSE IF Falsy(dict_a) \/ Falsy(dict_b) THEN FALSE
    ELSE \A key_a \in DOMAIN dict_a[2] : MatchKey(key_a, dict_a[2][key_a], dict_b)

\* objects_match without the comparison of the type names
objects_match_any_type(a, b) ==
    IF IsNone(a) /\ IsNone(b) THEN TRUE
    ELSE IF Falsy(a) \/ Falsy(b) THEN FALSE
    ELSE match_dict(to_dict(a), to_dict(b))

objects_match(a, b) ==
    IF IsNone(a) /\ IsNone(b) THEN TRUE
    ELSE IF Falsy(a) \/ Falsy(b) THEN FALSE
    ELSE IF TypeName(a) # TypeName(b) THEN FALSE
    ELSE match_dict(to_dict(a), to_dict(b))

(***************************************************************************)
(* The objects handed to the comparator: a service-shaped model object     *)
(* (scalar field, nested objects, a mapping, a collection of scalars, a    *)
(* collection of mappings, a collection of collections, a null field) in   *)
(* which one slot is varied over its values.                               *)
(***************************************************************************)
Scalars == {"a", "b"}
ScalarValues == {None} \cup {Scalar(s) : s \in Scalars}

\* all sequences over S of length 0..n
SeqsUpTo(S, n) == UNION {[1..m -> S] : m \in 0..n}

ScalarLists == {List(s) : s \in SeqsUpTo({Scalar(x) : x \in Scalars}, MaxLen)}

Port(p) == Obj("V1ServicePort", [name |-> Scalar("a"), port |-> Scalar(p)])
PortLists == {List(s) : s \in SeqsUpTo({Port(p) : p \in Scalars}, MaxLen)}

InnerLists ==
    {List(<<>>), List(<<Scalar("a")>>), List(<<Scalar("b"), Scalar("a")>>)}
NestedLists == {List(s) : s \in SeqsUpTo(InnerLists, MaxNest)}

LabelKeys == {"app", "tier"}
LabelDicts ==
    {Dict(f) : f \in UNION {[K -> {Scalar(x) : x \in Scalars}] : K \in SUBSET LabelKeys}}

Meta(name, labels) ==
    Obj("V1ObjectMeta", [name |-> name, labels |-> labels,
                         creation_timestamp |-> Scalar("t0"),
                         resource_version |-> Scalar("7")])
Metas == {None} \cup {Meta(n, l) : n \in ScalarValues, l \in LabelDicts}

Slots == {"api_version", "metadata", "ports", "external_ips", "args"}
SlotValues(slot) ==
    CASE slot = "api_version"  -> ScalarValues
      [] slot = "metadata"     -> Metas
      [] slot = "ports"        -> PortLists
      [] slot = "external_ips" -> ScalarLists
      [] slot = "args"         -> NestedLists

\* the object of type ty whose slot holds v, every other slot its base value
Mk(ty, slot, v) ==
    Obj(ty,
        [api_version |-> IF slot = "api_version" THEN v ELSE Scalar("a"),
         metadata    |-> IF slot = "metadata" THEN v
                         ELSE Meta(Scalar("a"), Dict([k \in {"app"} |-> Scalar("a")])),
         spec        |-> Obj("V1ServiceSpec",
                            [ports        |-> IF slot = "ports" THEN v
                                              ELSE List(<<Port("a")>>),
                             external_ips |-> IF slot = "external_ips" THEN v
                                              ELSE List(<<Scalar("a"), Scalar("b")>>),
                             args         |-> IF slot = "args" THEN v
                                              ELSE List(<<List(<<Scalar("a")>>)>>)]),
         status      |-> None])

ModelTypes == {"V1Service", "V1Route"}
(***************************************************************************)
(* The cluster API client, as the helper sees it.                          *)
(***************************************************************************)
\* the namespace argument: Python None, the empty string, or a name
NoNamespace == "<None>"
Namespaces == {NoNamespace, "", "myproject"}
NsTruthy(ns) == ns \notin {NoNamespace, ""}

Kinds == {"service", "namespace", "route", "deployment", "role_binding"}
Verbs == {"read", "create", "patch", "delete"}

\* dir(client.apis) filtered by VERSION_RX, in dir() order; OapiApi appended
VersionedApis ==
    <<"AppsV1beta1Api", "CoreV1Api", "ExtensionsV1beta1Api", "RbacAuthorizationV1beta1Api">>
Apis == Append(VersionedApis, "OapiApi")

\* the method names each API group's client exposes
Exposes(api) ==
    CASE api = "AppsV1beta1Api" -> {v \o "_namespaced_deployment" : v \in Verbs}
      [] api = "CoreV1Api"      -> {v \o "_namespaced_service" : v \in Verbs}
                                   \cup {v \o "_namespace" : v \in Verbs}
      [] api = "ExtensionsV1beta1Api" -> {v \o "_namespaced_deployment" : v \in Verbs}
      [] api = "RbacAuthorizationV1beta1Api" ->
                                   {v \o "_namespaced_role_binding" : v \in Verbs}
      [] api = "OapiApi"        -> {v \o "_namespaced_route" : v \in Verbs}
                                   \cup {v \o "_namespaced_role_binding" : v \in Verbs}

\* 'body' in inspect.getargspec(delete_method).args
AcceptsBody(method_name) ==
    method_name \in {"delete_namespaced_service", "delete_namespace",
                     "delete_namespaced_deployment", "delete_namespaced_role_binding"}

\* __lookup_method keeping the last group, in Apis order, exposing the name
lookup_method_last_match(operation, ns) ==
    LET method_name == operation \o (IF NsTruthy(ns) THEN "_namespaced_" ELSE "_") \o kind
        hits == {i \in DOMAIN Apis : method_name \in Exposes(Apis[i])}
    IN  IF hits = {}
        THEN [found |-> FALSE, name |-> method_name, api |-> "",
              namespaced |-> NsTruthy(ns)]
        ELSE [found |-> TRUE, name |-> method_name,
              api |-> Apis[CHOOSE i \in hits : \A j \in hits : i >= j],
              namespaced |-> NsTruthy(ns)]

\* no method looked up yet
NoMethod == [found |-> FALSE, name |-> "", api |-> "", namespaced |-> FALSE]

\* __lookup_method: the first group, in Apis order, exposing the name
lookup_method(operation, ns) ==
    LET method_name == operation \o (IF NsTruthy(ns) THEN "_namespaced_" ELSE "_") \o kind
        hits == {i \in DOMAIN Apis : method_name \in Exposes(Apis[i])}
    IN  IF hits = {}
        THEN [found |-> FALSE, name |-> method_name, api |-> "",
              namespaced |-> NsTruthy(ns)]
        ELSE [found |-> TRUE, name |-> method_name,
              api |-> Apis[CHOOSE i \in hits : \A j \in hits : i <= j],
              namespaced |-> NsTruthy(ns)]

(***************************************************************************)
(* Exceptions and results.                                                 *)
(***************************************************************************)
\* kubernetes.client.rest.ApiException: status, reason and a JSON body
Statuses == {"404", "409", "500"}
Reason(status) ==
    CASE status = "404" -> "Not Found"
      [] status = "409" -> "Conflict"
      [] OTHER          -> "Internal Server Error"
Messages == {"m1", "m2"}
Bodies == {[has_message |-> TRUE, message |-> m] : m \in Messages}
          \cup {[has_message |-> FALSE, message |-> ""]}
ApiExceptions == {[status |-> s, reason |-> Reason(s), body |-> b] : s \in Statuses, b \in Bodies}
NoExc == [status |-> "", reason |-> "", body |-> [has_message |-> FALSE, message |-> ""]]

\* json.loads(exc.body).get('message', exc.reason)
JsonMessage(e) == IF e.body.has_message THEN e.body.message ELSE e.reason

\* str(exc) of an ApiException
StrExc(e) ==
    "(" \o e.status \o ")\nReason: " \o e.reason \o "\nHTTP response body: "
        \o (IF e.body.has_message THEN "{\"message\": \"" \o e.body.message \o "\"}" ELSE "{}")

\* the exception a call ends with: its type, its message, its status keyword
NoError == [type |-> "none", msg |-> "", status |-> "unset"]
OpenShiftException(msg, status) == [type |-> "OpenShiftException", msg |-> msg, status |-> status]
TypeError == [type |-> "TypeError", msg |-> "", status |-> "unset"]
AttributeError == [type |-> "AttributeError", msg |-> "", status |-> "unset"]
KeyError == [type |-> "KeyError", msg |-> "", status |-> "unset"]

\* the objects the cluster returns: a resource version (0: the response of
\* the create/patch call, n: the object the n-th poll read) and the shape of
\* its status
StatusShapes == {"Active", "Pending", "NoPhase", "NoStatus"}
NoObj == [rv |-> 0, st |-> "None"]
ServerObj(rv, st) == [rv |-> rv, st |-> st]

\* what the cluster answers to one transport call
Outcomes ==
    {[made |-> TRUE, ok |-> TRUE, st |-> st, exc |-> NoExc] : st \in StatusShapes}
    \cup {[made |-> TRUE, ok |-> FALSE, st |-> "None", exc |-> e] : e \in ApiExceptions}
NoAnswer == [made |-> FALSE, ok |-> FALSE, st |-> "None", exc |-> NoExc]

\* how a method ends: the value returned or the exception raised, and the
\* answer of the transport call it made (NoAnswer: it made none)
Return(v, ans) == [raised |-> FALSE, val |-> v, err |-> NoError, ans |-> ans]
Raise(e, ans) == [raised |-> TRUE, val |-> NoObj, err |-> e, ans |-> ans]

NotFoundMessage(m, ns) ==
    "Error: method " \o m.name \o " not found for model " \o kind \o ". "
        \o (IF ~NsTruthy(ns) THEN "Did you forget to include the namespace?" ELSE "")

(***************************************************************************)
(* The sanitizer and the payload of a patch.                               *)
(***************************************************************************)
\* <model>.swagger_types: the declared type of every attribute
SwaggerTypes(ty) ==
    CASE ty \in {"V1Service", "V1Namespace", "V1Route", "V1beta1Deployment"} ->
            [api_version |-> "str", metadata |-> "V1ObjectMeta",
             spec |-> "V1ServiceSpec", status |-> ty \o "Status"]
      [] ty = "V1ObjectMeta" ->
            [name |-> "str", labels |-> "dict(str, str)",
             creation_timestamp |-> "datetime", resource_version |-> "str"]
      [] ty = "V1ServiceSpec" ->
            [ports |-> "list[V1ServicePort]", external_ips |-> "list[str]",
             args |-> "list[list[str]]"]
      [] ty = "V1ServicePort" -> [name |-> "str", port |-> "int"]
      [] ty = "V1RoleBinding" ->
            [api_version |-> "str", metadata |-> "V1ObjectMeta",
             role_ref |-> "V1ObjectReference", subjects |-> "list[V1ObjectReference]"]
      [] ty = "V1ObjectReference" -> [name |-> "str"]
      [] ty = "V1ImageStreamTag" ->
            [metadata |-> "V1ObjectMeta", image |-> "V1Image", generation |-> "int"]
      [] ty = "V1Image" ->
            [metadata |-> "V1ObjectMeta", creation_timestamp |-> "datetime",
             docker_image_layers |-> "list[V1ImageLayer]",
             annotations |-> "dict(str, str)"]
      [] ty = "V1ImageLayer" -> [name |-> "str", creation_timestamp |-> "datetime"]
      [] OTHER -> [phase |-> "str"]

\* value.startswith('dict(') or value.startswith('list[')
IsContainerType(t) ==
    t \in {"dict(str, str)", "list[V1ServicePort]", "list[str]", "list[list[str]]",
           "list[V1ImageLayer]", "list[V1ObjectReference]"}

\* the sanitizer stopping at the outermost timestamp it clears: an object
\* whose own creation_timestamp is set is cleared and not descended into
RECURSIVE remove_creation_timestamps_top_first(_)
remove_creation_timestamps_top_first(obj) ==
    IF Tag(obj) # "obj" THEN obj
    ELSE IF "creation_timestamp" \in DOMAIN obj[3] /\ ~IsNone(obj[3]["creation_timestamp"])
    THEN Obj(obj[2], [obj[3] EXCEPT !["creation_timestamp"] = None])
    ELSE Obj(obj[2],
             [key \in DOMAIN obj[3] |->
                IF key = "creation_timestamp" THEN None
                ELSE IF IsContainerType(SwaggerTypes(obj[2])[key]) THEN obj[3][key]
                ELSE IF SwaggerTypes(obj[2])[key] \in {"str", "int", "bool"} THEN obj[3][key]
                ELSE IF ~IsNone(obj[3][key])
                THEN remove_creation_timestamps_top_first(obj[3][key])
                ELSE obj[3][key]])

RECURSIVE remove_creation_timestamps(_)
remove_creation_timestamps(obj) ==
    IF Tag(obj) # "obj" THEN obj
    ELSE Obj(obj[2],
             [key \in DOMAIN obj[3] |->
                IF key = "creation_timestamp" THEN None
                ELSE IF IsContainerType(SwaggerTypes(obj[2])[key]) THEN obj[3][key]
                ELSE IF SwaggerTypes(obj[2])[key] \in {"str", "int", "bool"} THEN obj[3][key]
                ELSE IF ~IsNone(obj[3][key]) THEN remove_creation_timestamps(obj[3][key])
                ELSE obj[3][key]])

\* get_model: the model class of the helper's kind
ModelName(k) ==
    CASE k = "service" -> "V1Service"
      [] k = "namespace" -> "V1Namespace"
      [] k = "route" -> "V1Route"
      [] k = "deployment" -> "V1beta1Deployment"
      [] k = "role_binding" -> "V1RoleBinding"

(***************************************************************************)
(* The property map of a model class.                                      *)
(***************************************************************************)
\* an attribute of a model class: a property object, with or without a
\* setter function (fset), or something that is no property
Property(has_fset) == [is_property |-> TRUE, fset |-> has_fset]
Method == [is_property |-> FALSE, fset |-> FALSE]

\* dir(model_class) with getattr(model_class, x): the accessors of a
\* top-level model; `status` is the read-only one, and a role binding has
\* neither spec nor status
ClassAttrs(ty) ==
    IF ty = "V1RoleBinding"
    THEN [api_version |-> Property(TRUE), metadata |-> Property(TRUE),
          role_ref |-> Property(TRUE), subjects |-> Property(TRUE),
          to_dict |-> Method, to_str |-> Method]
    ELSE [api_version |-> Property(TRUE), metadata |-> Property(TRUE),
          spec |-> Property(TRUE), status |-> Property(FALSE),
          to_dict |-> Method, to_str |-> Method]

\* getattr(<property object>, 'setter', None): every property object has
\* the method `setter` (the decorator that builds a copy with a new fset),
\* whether or not its own fset is set
GetattrSetter(prop) == Scalar("<built-in method setter of property object>")

\* value.startswith('list[') / value.startswith('dict(')
IsListType(t) ==
    t \in {"list[V1ServicePort]", "list[str]", "list[list[str]]", "list[V1ImageLayer]",
           "list[V1ObjectReference]"}
IsDictType(t) == t \in {"dict(str, str)"}

\* the class a declared type maps to (lines 342-350)
PropClass(prop_kind) ==
    IF prop_kind \in {"str", "int", "bool"} THEN prop_kind
    ELSE IF IsListType(prop_kind) THEN "list"
    ELSE IF IsDictType(prop_kind) THEN "dict"
    ELSE prop_kind

\* properties_from_model_obj(model_obj), model_obj an instance of ty
properties_from_model_obj(ty) ==
    [x \in {a \in DOMAIN ClassAttrs(ty) : ClassAttrs(ty)[a].is_property} |->
        [class     |-> PropClass(SwaggerTypes(ty)[x]),
         immutable |-> IF ~Falsy(GetattrSetter(ClassAttrs(ty)[x])) THEN FALSE ELSE TRUE]]

\* self.properties['status']['class'](): a status object with nothing set
EmptyStatus(ty) ==
    Obj(SwaggerTypes(ty)["status"],
        [k \in DOMAIN SwaggerTypes(SwaggerTypes(ty)["status"]) |-> None])

\* line 134 of patch_object: k8s_obj.status = empty_status
ClearStatus(obj) ==
    Obj(obj[2], [obj[3] EXCEPT !["status"] = EmptyStatus(obj[2])])

\* PreparePatch without the sanitizer (line 136)
PreparePatch_unsanitized(obj) ==
    Obj(obj[2],
        [obj[3] EXCEPT
            !["status"] = EmptyStatus(obj[2]),
            !["metadata"] = Obj(@[2], [@[3] EXCEPT !["resource_version"] = None])])

\* lines 133-136 of patch_object: the payload as it is handed to the call
PreparePatch(obj) ==
    remove_creation_timestamps(
        Obj(obj[2],
            [obj[3] EXCEPT
                !["status"] = EmptyStatus(obj[2]),
                !["metadata"] = Obj(@[2], [@[3] EXCEPT !["resource_version"] = None])]))

\* the objects a caller patches with
Payloads ==
    {Mk(ModelName(kind), "metadata", m)
        : m \in {None, Meta(Scalar("a"), Dict([k \in {"app"} |-> Scalar("a")]))}}

\* a status as the cluster reports it
Status(ty, phase) == Obj(SwaggerTypes(ty)["status"], [phase |-> phase])

\* the objects the sanitizer is applied to: object references three deep,
\* set and unset, timestamps set and unset at every depth, and a
\* collection and a mapping whose contents carry timestamps
Timestamps == {None, Scalar("t0")}
MetaAt(ts) ==
    Obj("V1ObjectMeta", [name |-> Scalar("a"),
                         labels |-> Dict([k \in {"creation_timestamp"} |-> Scalar("t0")]),
                         creation_timestamp |-> ts,
                         resource_version |-> Scalar("7")])
MetasAt == {None} \cup {MetaAt(ts) : ts \in Timestamps}
ImageLayer(ts) == Obj("V1ImageLayer", [name |-> Scalar("a"), creation_timestamp |-> ts])
Image(meta, ts) ==
    Obj("V1Image", [metadata |-> meta, creation_timestamp |-> ts,
                    docker_image_layers |-> List(<<ImageLayer(Scalar("t0")), ImageLayer(None)>>),
                    annotations |-> Dict([k \in {"creation_timestamp"} |-> Scalar("t0")])])
Images == {None} \cup {Image(m, ts) : m \in MetasAt, ts \in Timestamps}
ImageStreamTag(meta, image) ==
    Obj("V1ImageStreamTag", [metadata |-> meta, image |-> image, generation |-> Scalar("7")])
SanitizerInputs ==
    {ImageStreamTag(m, i) : m \in MetasAt, i \in Images}
    \cup {MetaAt(ts) : ts \in Timestamps}
    \cup {Scalar("t0"), List(<<ImageLayer(Scalar("t0"))>>)}

\* the objects a caller patches: read from the cluster (status, resource
\* version and timestamp set) or built by hand (some of them unset), with
\* or without metadata
RoleBinding(meta) ==
    Obj("V1RoleBinding",
        [api_version |-> Scalar("a"), metadata |-> meta,
         role_ref |-> Obj("V1ObjectReference", [name |-> Scalar("a")]),
         subjects |-> List(<<Obj("V1ObjectReference", [name |-> Scalar("b")])>>)])
PatchPayloads ==
    IF kind = "role_binding" THEN {RoleBinding(m) : m \in MetasAt}
    ELSE Payloads
         \cup {Obj(ModelName(kind),
                   [Mk(ModelName(kind), "metadata", m)[3] EXCEPT !["status"] = st])
                 : m \in MetasAt, st \in {None, Status(ModelName(kind), Scalar("Active"))}}

NoCall == [method |-> "", with_ns |-> FALSE, body |-> None]
Call(m, with_ns, body) == [method |-> m.name, with_ns |-> with_ns, body |-> body]

(***************************************************************************)
(* The lifecycle operations.                                               *)
(***************************************************************************)
\* get_object raising on a 404 as on every other status
get_object_raising_404(ns, out, rv) ==
    LET m == lookup_method("read", ns)
    IN  IF ~m.found
        THEN Raise(OpenShiftException(NotFoundMessage(m, ns), "unset"), NoAnswer)
        ELSE IF m.namespaced # (ns # NoNamespace) THEN Raise(TypeError, NoAnswer)
        ELSE IF out.ok THEN Return(ServerObj(rv, out.st), out)
        ELSE Raise(OpenShiftException(JsonMessage(out.exc), out.exc.status), out)

\* get_object: rv numbers the object read
get_object(ns, out, rv) ==
    LET m == lookup_method("read", ns)
    IN  IF ~m.found
        THEN Raise(OpenShiftException(NotFoundMessage(m, ns), "unset"), NoAnswer)
        ELSE IF m.namespaced # (ns # NoNamespace) THEN Raise(TypeError, NoAnswer)
        ELSE IF out.ok THEN Return(ServerObj(rv, out.st), out)
        ELSE IF out.exc.status # "404"
        THEN Raise(OpenShiftException(JsonMessage(out.exc), out.exc.status), out)
        ELSE Return(NoObj, out)

\* lines 171-179 of create_object
create_call(ns, out) ==
    LET m == lookup_method("create", ns)
    IN  IF ~m.found
        THEN Raise(OpenShiftException(NotFoundMessage(m, ns), "unset"), NoAnswer)
        ELSE IF m.namespaced # (ns # NoNamespace) THEN Raise(TypeError, NoAnswer)
        ELSE IF out.ok THEN Return(ServerObj(0, out.st), out)
        ELSE Raise(OpenShiftException(JsonMessage(out.exc), out.exc.status), out)

\* lines 138-147 of patch_object
patch_call(ns, out) ==
    LET m == lookup_method("patch", ns)
    IN  IF ~m.found
        THEN Raise(OpenShiftException(NotFoundMessage(m, ns), "unset"), NoAnswer)
        ELSE IF out.ok THEN Return(ServerObj(0, out.st), out)
        ELSE Raise(OpenShiftException(StrExc(out.exc), "unset"), out)

\* lines 202-220 of delete_object
delete_call(ns, out) ==
    LET m == lookup_method("delete", ns)
    IN  IF ~m.found
        THEN Raise(OpenShiftException(NotFoundMessage(m, ns), "unset"), NoAnswer)
        ELSE IF out.ok THEN Return(NoObj, out)
        ELSE Raise(OpenShiftException(JsonMessage(out.exc), out.exc.status), out)

\* math.ceil(timeout / 2), `/` being true division (Python 3); under
\* Python 2 `/` floors first and half is one less for an odd timeout
Half(t) == (t + 1) \div 2

\* the body of the wait loop of create_object and patch_object on the
\* object a poll returned: an attribute error, a break, or another round
ReadyStep(obj, ret) ==
    IF obj = NoObj \/ obj.st = "NoStatus"
    THEN [raise |-> TRUE, brk |-> FALSE, ret |-> ret]
    ELSE IF obj.st \in {"Active", "Pending"}
    THEN [raise |-> FALSE, brk |-> obj.st = "Active", ret |-> obj]
    ELSE [raise |-> FALSE, brk |-> TRUE, ret |-> obj]

\* GoneStep with the test inverted: `if obj: break`
GoneStep_inverted(obj, ret) == [raise |-> FALSE, brk |-> obj # NoObj, ret |-> ret]

\* the body of the wait loop of delete_object: `if not obj: break`
GoneStep(obj, ret) == [raise |-> FALSE, brk |-> obj = NoObj, ret |-> ret]

(***************************************************************************)
(* The state machine.                                                      *)
(***************************************************************************)
Init ==
    /\ kind \in Kinds
    /\ properties = properties_from_model_obj(ModelName(kind))
    /\ pc = "idle"
    /\ op = "none"
    /\ namespace = NoNamespace
    /\ wait = FALSE
    /\ timeout = 0
    /\ tries = 0
    /\ half = 0
    /\ polls = 0
    /\ clock = 0
    /\ return_obj = NoObj
    /\ last_seen = NoObj
    /\ error = NoError
    /\ answer = NoAnswer
    /\ method = NoMethod
    /\ sent = NoCall
    /\ given = None
    /\ k8s_obj = None
    /\ obj_a = None
    /\ obj_b = None
    /\ match = FALSE

\* the call ends: with the value r returns, or with the exception it raises
Finish(r) ==
    /\ pc' = IF r.raised THEN "raised" ELSE "returned"
    /\ return_obj' = r.val
    /\ error' = r.err
    /\ answer' = r.ans

\* after a successful create/patch/delete call: return, or enter the loop
\* `tries = 0; half = math.ceil(timeout / 2); while tries <= half`
EnterWait(r, w, t, loop) ==
    /\ return_obj' = r.val
    /\ error' = NoError
    /\ answer' = r.ans
    /\ half' = IF w THEN Half(t) ELSE 0
    /\ pc' = IF w /\ 0 <= Half(t) THEN loop ELSE "returned"

GetObject ==
    /\ pc = "idle"
    /\ \E ns \in Namespaces, out \in Outcomes :
          LET m == lookup_method("read", ns)
          IN  /\ op' = "get"
              /\ namespace' = ns
              /\ method' = m
              /\ sent' = IF m.found THEN Call(m, ns # NoNamespace, None) ELSE NoCall
              /\ Finish(get_object(ns, out, 1))
    /\ UNCHANGED <<kind, properties, given, k8s_obj, wait, timeout, tries, half,
                   polls, clock, last_seen, obj_a, obj_b, match>>

CreateObject ==
    /\ pc = "idle"
    /\ \E ns \in Namespaces, w \in BOOLEAN, t \in 0..MaxTimeout, out \in Outcomes :
          LET r == create_call(ns, out)
              m == lookup_method("create", ns)
          IN  /\ op' = "create"
              /\ namespace' = ns
              /\ wait' = w
              /\ timeout' = t
              /\ method' = m
              /\ sent' = IF m.found THEN Call(m, ns # NoNamespace, None) ELSE NoCall
              /\ IF r.raised
                 THEN Finish(r) /\ UNCHANGED half
                 ELSE EnterWait(r, w, t, "create_wait")
    /\ UNCHANGED <<kind, properties, given, k8s_obj, tries, polls, clock, last_seen, obj_a, obj_b, match>>

PatchObject ==
    /\ pc = "idle"
    /\ \E ns \in Namespaces, w \in BOOLEAN, t \in 0..MaxTimeout, obj \in PatchPayloads :
          /\ op' = "patch"
          /\ namespace' = ns
          /\ wait' = w
          /\ timeout' = t
          /\ given' = obj
          /\ IF "status" \notin DOMAIN properties
             THEN \* self.properties['status'] fails
                  /\ k8s_obj' = obj
                  /\ Finish(Raise(KeyError, NoAnswer))
             ELSE IF IsNone(obj[3]["metadata"])
             THEN \* k8s_obj.metadata.resource_version = None fails, the
                  \* status already replaced
                  /\ k8s_obj' = ClearStatus(obj)
                  /\ Finish(Raise(AttributeError, NoAnswer))
             ELSE /\ k8s_obj' = PreparePatch(obj)
                  /\ pc' = "patch_call"
                  /\ UNCHANGED <<return_obj, error, answer>>
    /\ UNCHANGED <<kind, properties, method, sent, tries, half, polls, clock, last_seen,
                   obj_a, obj_b, match>>

\* lines 138-149 of patch_object: the method is resolved and invoked with
\* the object as it now is
PatchCall ==
    /\ pc = "patch_call"
    /\ \E out \in Outcomes :
          LET r == patch_call(namespace, out)
              m == lookup_method("patch", namespace)
          IN  /\ method' = m
              /\ sent' = IF m.found THEN Call(m, NsTruthy(namespace), k8s_obj) ELSE NoCall
              /\ IF r.raised
                 THEN Finish(r) /\ UNCHANGED half
                 ELSE EnterWait(r, wait, timeout, "patch_wait")
    /\ UNCHANGED <<kind, properties, given, k8s_obj, op, namespace, wait, timeout,
                   tries, polls, clock, last_seen, obj_a, obj_b, match>>

DeleteObject ==
    /\ pc = "idle"
    /\ \E ns \in Namespaces, w \in BOOLEAN, t \in 0..MaxTimeout, out \in Outcomes :
          LET r == delete_call(ns, out)
              m == lookup_method("delete", ns)
          IN  /\ op' = "delete"
              /\ namespace' = ns
              /\ wait' = w
              /\ timeout' = t
              /\ method' = m
              /\ sent' = IF m.found
                         THEN Call(m, NsTruthy(ns),
                                   IF AcceptsBody(m.name)
                                   THEN Obj("V1DeleteOptions", <<>>) ELSE None)
                         ELSE NoCall
              /\ IF r.raised
                 THEN Finish(r) /\ UNCHANGED half
                 ELSE EnterWait(r, w, t, "delete_wait")
    /\ UNCHANGED <<kind, properties, given, k8s_obj, tries, polls, clock, last_seen, obj_a, obj_b, match>>

\* one round of a wait loop: the poll, the loop body, `tries += 2`,
\* `time.sleep(2)` and the loop test
WaitRound(r, s) ==
    /\ polls' = polls + 1
    /\ answer' = r.ans
    /\ last_seen' = IF ~r.raised /\ r.val # NoObj THEN r.val ELSE last_seen
    /\ IF r.raised
       THEN /\ pc' = "raised"
            /\ error' = r.err
            /\ UNCHANGED <<return_obj, tries, clock>>
       ELSE IF s.raise
       THEN /\ pc' = "raised"
            /\ error' = AttributeError
            /\ UNCHANGED <<return_obj, tries, clock>>
       ELSE IF s.brk
       THEN /\ pc' = "returned"
            /\ return_obj' = s.ret
            /\ UNCHANGED <<error, tries, clock>>
       ELSE /\ return_obj' = s.ret
            /\ tries' = tries + 2
            /\ clock' = clock + 2
            /\ pc' = IF tries + 2 <= half THEN pc ELSE "returned"
            /\ UNCHANGED error
    /\ UNCHANGED <<kind, properties, method, given, k8s_obj, op, namespace, wait, timeout, half, sent, obj_a, obj_b, match>>

CreateWaitStep ==
    /\ pc = "create_wait"
    /\ \E out \in Outcomes :
          LET r == get_object(namespace, out, polls + 1)
          IN  WaitRound(r, ReadyStep(r.val, return_obj))

PatchWaitStep ==
    /\ pc = "patch_wait"
    /\ \E out \in Outcomes :
          LET r == get_object(namespace, out, polls + 1)
          IN  WaitRound(r, ReadyStep(r.val, return_obj))

DeleteWaitStep ==
    /\ pc = "delete_wait"
    /\ \E out \in Outcomes :
          LET r == get_object(namespace, out, polls + 1)
          IN  WaitRound(r, GoneStep(r.val, return_obj))

\* update_object(name, namespace, k8s_obj): the body is `pass`, so the call
\* returns None at once, whatever its arguments; it resolves no method and
\* makes no transport call
UpdateObject ==
    /\ pc = "idle"
    /\ \E ns \in Namespaces, obj \in PatchPayloads :
          /\ op' = "update"
          /\ namespace' = ns
          /\ given' = obj
          /\ k8s_obj' = obj
          /\ Finish(Return(NoObj, NoAnswer))
    /\ UNCHANGED <<kind, properties, method, wait, timeout, tries, half, polls, clock, last_seen,
                   sent, obj_a, obj_b, match>>

\* __remove_creation_timestamps(obj) on an object the caller supplied
RemoveCreationTimestamps ==
    /\ pc = "idle"
    /\ \E obj \in SanitizerInputs :
          /\ given' = obj
          /\ k8s_obj' = remove_creation_timestamps(obj)
    /\ op' = "sanitize"
    /\ pc' = "sanitized"
    /\ UNCHANGED <<kind, properties, method, namespace, wait, timeout, tries, half, polls,
                   clock, return_obj, last_seen, error, answer, sent,
                   obj_a, obj_b, match>>

\* __remove_creation_timestamps(obj) once more on the same object
RemoveCreationTimestampsAgain ==
    /\ pc = "sanitized"
    /\ k8s_obj' = remove_creation_timestamps(k8s_obj)
    /\ pc' = "returned"
    /\ UNCHANGED <<kind, properties, method, given, op, namespace, wait, timeout, tries,
                   half, polls, clock, return_obj, last_seen, error, answer, sent,
                   obj_a, obj_b, match>>

\* objects_match(a, b), the caller holding the result
Compare(a, b) ==
    /\ obj_a' = a
    /\ obj_b' = b
    /\ match' = objects_match(a, b)

\* the caller compares: nothing with nothing, an object with nothing,
\* objects of two types, or two objects of one type that vary in one slot
ObjectsMatch ==
    /\ pc = "idle"
    /\ \/ Compare(None, None)
       \/ \E slot \in Slots : \E v \in SlotValues(slot) :
             \/ Compare(None, Mk("V1Service", slot, v))
             \/ Compare(Mk("V1Service", slot, v), None)
       \/ \E v \in ScalarValues, ta \in ModelTypes, tb \in ModelTypes :
             Compare(Mk(ta, "api_version", v), Mk(tb, "api_version", v))
       \/ \E slot \in Slots : \E va \in SlotValues(slot), vb \in SlotValues(slot) :
             Compare(Mk("V1Service", slot, va), Mk("V1Service", slot, vb))
    /\ op' = "match"
    /\ pc' = "returned"
    /\ UNCHANGED <<kind, properties, method, given, k8s_obj, namespace, wait, timeout, tries, half, polls, clock,
                   return_obj, last_seen, error, answer, sent>>

Next ==
    \/ GetObject
    \/ CreateObject
    \/ PatchObject
    \/ PatchCall
    \/ DeleteObject
    \/ UpdateObject
    \/ CreateWaitStep
    \/ PatchWaitStep
    \/ DeleteWaitStep
    \/ ObjectsMatch
    \/ RemoveCreationTimestamps
    \/ RemoveCreationTimestampsAgain

Spec == Init /\ [][Next]_vars

\* a call, once made, runs on: nothing but the cluster's answer holds up a
\* round of a wait loop
FairSpec ==
    /\ Spec
    /\ WF_vars(PatchCall)
    /\ WF_vars(CreateWaitStep) /\ WF_vars(PatchWaitStep) /\ WF_vars(DeleteWaitStep)

(***************************************************************************)
(* Properties.                                                             *)
(***************************************************************************)
Ended == pc \in {"returned", "raised"}

\* C1: get_object returns None, raising nothing, when the read call fails
\* with status 404; for every other status of a failed read call it raises
\* the helper's exception with that status and the message of the error
\* body; when the read call succeeds it returns the object read.
C1_GetObject ==
    (op = "get" /\ Ended /\ answer.made) =>
        /\ (~answer.ok /\ answer.exc.status = "404") =>
                pc = "returned" /\ return_obj = NoObj /\ error = NoError
        /\ (~answer.ok /\ answer.exc.status # "404") =>
                /\ pc = "raised"
                /\ error.type = "OpenShiftException"
                /\ error.status = answer.exc.status
                /\ answer.exc.body.has_message => error.msg = answer.exc.body.message
        /\ answer.ok =>
                pc = "returned" /\ return_obj = ServerObj(1, answer.st) /\ error = NoError

C1_Witness ==
    /\ op = "get" /\ pc = "raised" /\ answer.made
    /\ answer.exc.status = "500" /\ error.status = "500" /\ error.msg = "m2"

Matched == op = "match" /\ pc = "returned"

\* C2: objects_match is true for (None, None), false when exactly one
\* argument is None, false for two objects of different types; only two
\* objects of one type are compared by their field mappings.
C2_NoneAndTypes ==
    Matched =>
        /\ (IsNone(obj_a) /\ IsNone(obj_b)) => match
        /\ (IsNone(obj_a) # IsNone(obj_b)) => ~match
        /\ (~IsNone(obj_a) /\ ~IsNone(obj_b) /\ TypeName(obj_a) # TypeName(obj_b)) => ~match
        /\ (~IsNone(obj_a) /\ ~IsNone(obj_b) /\ TypeName(obj_a) = TypeName(obj_b)) =>
                match = match_dict(to_dict(obj_a), to_dict(obj_b))

C2_Witness ==
    /\ Matched /\ ~IsNone(obj_a) /\ ~IsNone(obj_b)
    /\ TypeName(obj_a) # TypeName(obj_b)
    /\ obj_a[3] = obj_b[3]
    /\ ~match

\* C3: objects_match(x, x) is true for every object x.
C3_Reflexive ==
    (Matched /\ ~IsNone(obj_a) /\ obj_a = obj_b) => match

C3_Witness ==
    /\ Matched /\ ~IsNone(obj_a) /\ obj_a = obj_b /\ match
    /\ Len(obj_a[3]["spec"][3]["args"][2]) = 2
    /\ IsNone(obj_a[3]["status"])

\* x and y are alike but for the value of one scalar field, reached through
\* nested objects and mappings and, with `lists`, through the elements of
\* a collection of objects
RECURSIVE OneScalarFieldDiffers(_, _, _)
OneScalarFieldDiffers(x, y, lists) ==
    IF Tag(x) \in {"scalar", "none"} /\ Tag(y) \in {"scalar", "none"} THEN x # y
    ELSE IF Tag(x) = "obj" /\ Tag(y) = "obj" THEN
        /\ x[2] = y[2]
        /\ DOMAIN x[3] = DOMAIN y[3]
        /\ \E k \in DOMAIN x[3] :
              /\ OneScalarFieldDiffers(x[3][k], y[3][k], lists)
              /\ \A j \in DOMAIN x[3] \ {k} : x[3][j] = y[3][j]
    ELSE IF Tag(x) = "dict" /\ Tag(y) = "dict" THEN
        /\ DOMAIN x[2] = DOMAIN y[2]
        /\ \E k \in DOMAIN x[2] :
              /\ OneScalarFieldDiffers(x[2][k], y[2][k], lists)
              /\ \A j \in DOMAIN x[2] \ {k} : x[2][j] = y[2][j]
    ELSE IF lists /\ Tag(x) = "list" /\ Tag(y) = "list" THEN
        /\ DOMAIN x[2] = DOMAIN y[2]
        /\ \E k \in DOMAIN x[2] :
              /\ Tag(x[2][k]) = "obj"
              /\ OneScalarFieldDiffers(x[2][k], y[2][k], lists)
              /\ \A j \in DOMAIN x[2] \ {k} : x[2][j] = y[2][j]
    ELSE FALSE

\* C4, as claimed: two objects of one type, alike but for one scalar field
\* at any depth of the object tree, do not match.
C4_AnyDepth ==
    (Matched /\ ~IsNone(obj_a) /\ ~IsNone(obj_b)
        /\ OneScalarFieldDiffers(obj_a, obj_b, TRUE)) => ~match

\* C4, amended: two objects of one type, alike but for one scalar field
\* reached through nested objects and mappings only (not inside an element
\* of a collection), do not match.
C4_OutsideCollections ==
    (Matched /\ ~IsNone(obj_a) /\ ~IsNone(obj_b)
        /\ OneScalarFieldDiffers(obj_a, obj_b, FALSE)) => ~match

C4_Witness ==
    /\ Matched /\ ~IsNone(obj_a) /\ ~IsNone(obj_b)
    /\ OneScalarFieldDiffers(obj_a, obj_b, FALSE)
    /\ obj_a[3]["api_version"] = obj_b[3]["api_version"]
    /\ ~match

IpsOf(o) == o[3]["spec"][3]["external_ips"]
PortsOf(o) == o[3]["spec"][3]["ports"]
\* the value an object holds in a slot
SlotOf(o, slot) ==
    CASE slot = "api_version"  -> o[3]["api_version"]
      [] slot = "metadata"     -> o[3]["metadata"]
      [] slot = "ports"        -> PortsOf(o)
      [] slot = "external_ips" -> IpsOf(o)
      [] slot = "args"         -> o[3]["spec"][3]["args"]
\* the two objects compared are alike but for the slot
DifferOnlyIn(slot) ==
    /\ Matched /\ ~IsNone(obj_a) /\ ~IsNone(obj_b)
    /\ obj_a = Mk("V1Service", slot, SlotOf(obj_a, slot))
    /\ obj_b = Mk("V1Service", slot, SlotOf(obj_b, slot))

\* C5: two collections of scalars match exactly when they hold the same set
\* of values, whatever the order and the number of repetitions; two empty
\* collections match and an empty one matches no non-empty one.
C5_ScalarSets ==
    DifferOnlyIn("external_ips") =>
        /\ match <=> (SetOf(IpsOf(obj_a)) = SetOf(IpsOf(obj_b)))
        /\ (IpsOf(obj_a)[2] = <<>> /\ IpsOf(obj_b)[2] = <<>>) => match
        /\ ((IpsOf(obj_a)[2] = <<>>) # (IpsOf(obj_b)[2] = <<>>)) => ~match

C5_Witness ==
    /\ DifferOnlyIn("external_ips")
    /\ IpsOf(obj_a)[2] = <<Scalar("a"), Scalar("b"), Scalar("a")>>
    /\ IpsOf(obj_b)[2] = <<Scalar("b"), Scalar("a")>>
    /\ match

\* C6: two non-empty collections of mappings match exactly when every
\* element of the first has an element of the second with the same
\* key/value pairs; elements only the second holds, and repetitions, do
\* not count.
C6_Containment ==
    (DifferOnlyIn("ports") /\ PortsOf(obj_a)[2] # <<>> /\ PortsOf(obj_b)[2] # <<>>) =>
        (match <=> \A i \in DOMAIN PortsOf(obj_a)[2] :
                      \E j \in DOMAIN PortsOf(obj_b)[2] :
                          PortsOf(obj_a)[2][i] = PortsOf(obj_b)[2][j])

C6_Witness ==
    /\ DifferOnlyIn("ports")
    /\ PortsOf(obj_a)[2] = <<Port("a"), Port("a"), Port("b")>>
    /\ PortsOf(obj_b)[2] = <<Port("a"), Port("b")>>
    /\ match

\* the last poll of the wait loop found the object gone (a 404)
PollSawNothing == polls > 0 /\ answer.made /\ ~answer.ok /\ answer.exc.status = "404"
\* the last poll of the wait loop read an object
PollSawObject == polls > 0 /\ answer.made /\ answer.ok

\* C7: delete_object with wait, once the delete call has succeeded, always
\* ends: it returns as soon as a poll finds the object gone; if the object
\* stays it returns when the budget of the loop is spent; it raises nothing
\* for an object that stays or is gone.
C7_DeleteWaitEnds ==
    /\ []((op = "delete" /\ PollSawNothing) => pc = "returned")
    /\ []((op = "delete" /\ PollSawObject) =>
            /\ pc \in {"delete_wait", "returned"}
            /\ (pc = "returned") <=> (tries > half))
    /\ (pc = "delete_wait") ~> (pc \in {"returned", "raised"})

C7_Witness ==
    /\ op = "delete" /\ pc = "returned" /\ wait
    /\ PollSawObject /\ polls >= 3 /\ tries > half

\* C8, as claimed: create_object and patch_object with wait, once the call
\* has succeeded, never fail on what a poll observes (an object whose phase
\* is not Active, one whose phase is Active, one without a phase, or no
\* object); they stop at the first observation that meets the wait
\* condition or when the budget is spent, and return the last object a poll
\* observed, or the response of the call if no poll observed one.
C8_WaitNeverFails ==
    (/\ op \in {"create", "patch"}
     /\ \/ PollSawNothing
        \/ PollSawObject /\ answer.st \in {"Active", "Pending", "NoPhase"}) =>
        /\ pc # "raised"
        /\ (answer.ok /\ answer.st \in {"Active", "NoPhase"}) => pc = "returned"
        /\ (pc = "returned" /\ ~(answer.ok /\ answer.st \in {"Active", "NoPhase"}))
                => tries > half
        /\ pc = "returned" =>
                IF last_seen # NoObj THEN return_obj = last_seen
                ELSE return_obj # NoObj /\ return_obj.rv = 0

\* C9, as claimed: a wait loop makes at most ceil(timeout/2) polls, with a
\* pause of 2 between consecutive polls, and exactly ceil(timeout/2) polls
\* when the wait condition is never met.
C9_PollBudget ==
    (op \in {"create", "patch", "delete"} /\ wait) =>
        /\ polls <= (timeout + 1) \div 2
        /\ polls > 0 => clock >= 2 * (polls - 1)
        /\ (pc = "returned" /\ polls > 0 /\ tries > half) =>
                polls = (timeout + 1) \div 2

\* C10, as claimed: when the transport call of create_object, patch_object
\* or delete_object fails with status s and body message m, the operation
\* raises the helper's exception with status s and message m.
C10_CallErrorsKept ==
    (op \in {"create", "patch", "delete"} /\ polls = 0 /\ answer.made /\ ~answer.ok) =>
        /\ pc = "raised"
        /\ error.type = "OpenShiftException"
        /\ error.status = answer.exc.status
        /\ answer.exc.body.has_message => error.msg = answer.exc.body.message

\* C11, as claimed: every call of update_object fails with a
\* not-implemented error; none returns normally.
C11_UpdateFails ==
    (op = "update" /\ Ended) =>
        pc = "raised" /\ error.type = "NotImplementedError"

\* C12, as claimed: the descriptor of every property of the model type
\* marks it immutable exactly when the type has no setter for it; the
\* read-only property `status` is marked immutable.
C12_ImmutableIffNoSetter ==
    /\ \A x \in DOMAIN properties :
          properties[x].immutable <=> ~ClassAttrs(ModelName(kind))[x].fset
    /\ "status" \in DOMAIN properties => properties["status"].immutable

\* C13: the sanitizer is idempotent: applied a second time to an object,
\* it leaves every field of the object and of its nested objects as the
\* first application left them.
C13_Idempotent ==
    [][(op = "sanitize" /\ pc = "sanitized") => k8s_obj' = k8s_obj]_vars

\* twice sanitized: an object whose own references, and the references of
\* the object it refers to, carried timestamps that the first application
\* cleared
C13_Witness ==
    /\ op = "sanitize" /\ pc = "returned"
    /\ Tag(given) = "obj" /\ given[2] = "V1ImageStreamTag"
    /\ ~IsNone(given[3]["image"])
    /\ ~IsNone(given[3]["image"][3]["metadata"])
    /\ given[3]["image"][3]["creation_timestamp"] = Scalar("t0")
    /\ given[3]["image"][3]["metadata"][3]["creation_timestamp"] = Scalar("t0")
    /\ k8s_obj # given
    /\ IsNone(k8s_obj[3]["image"][3]["creation_timestamp"])
    /\ IsNone(k8s_obj[3]["image"][3]["metadata"][3]["creation_timestamp"])

\* y is x but for the creation timestamps of x and of the objects x refers
\* to: scalars, collections and mappings are the same values
RECURSIVE LeftAsSupplied(_, _)
LeftAsSupplied(x, y) ==
    IF Tag(x) = "obj"
    THEN /\ Tag(y) = "obj" /\ y[2] = x[2] /\ DOMAIN y[3] = DOMAIN x[3]
         /\ \A k \in DOMAIN x[3] \ {"creation_timestamp"} :
               LeftAsSupplied(x[3][k], y[3][k])
    ELSE y = x

\* no creation timestamp is set on x or on an object x refers to
RECURSIVE NoTimestampLeft(_)
NoTimestampLeft(x) ==
    Tag(x) = "obj" =>
        /\ "creation_timestamp" \in DOMAIN x[3] => IsNone(x[3]["creation_timestamp"])
        /\ \A k \in DOMAIN x[3] : NoTimestampLeft(x[3][k])

\* C14: the patch method is invoked with the prepared payload only: when it
\* is invoked the payload is the caller's object with an empty status
\* object, no metadata resource version, no creation timestamp on it or on
\* an object it refers to, and every other scalar, collection and mapping
\* as the caller supplied it; before the preparation nothing is invoked.
C14_PreparedBeforeCall ==
    /\ (op = "patch" /\ pc = "patch_call") => sent = NoCall
    /\ (op = "patch" /\ sent # NoCall) =>
          /\ sent.body = k8s_obj
          /\ Tag(sent.body[3]["status"]) = "obj"
          /\ \A k \in DOMAIN sent.body[3]["status"][3] :
                IsNone(sent.body[3]["status"][3][k])
          /\ IsNone(sent.body[3]["metadata"][3]["resource_version"])
          /\ NoTimestampLeft(sent.body)
          /\ \A k \in DOMAIN given[3] \ {"status", "metadata"} :
                LeftAsSupplied(given[3][k], sent.body[3][k])
          /\ \A k \in DOMAIN given[3]["metadata"][3]
                        \ {"resource_version", "creation_timestamp"} :
                LeftAsSupplied(given[3]["metadata"][3][k], sent.body[3]["metadata"][3][k])

\* a patch invoked for an object read from the cluster: its status, resource
\* version and timestamp were set, its labels carry a timestamp of their own
C14_Witness ==
    /\ op = "patch" /\ sent # NoCall /\ pc = "returned"
    /\ ~IsNone(given[3]["status"])
    /\ given[3]["metadata"][3]["creation_timestamp"] = Scalar("t0")
    /\ given[3]["metadata"][3]["resource_version"] = Scalar("7")
    /\ "creation_timestamp" \in DOMAIN given[3]["metadata"][3]["labels"][2]
    /\ sent.body[3]["metadata"][3]["labels"] = given[3]["metadata"][3]["labels"]
    /\ sent.body # given

\* the verb a lifecycle operation resolves first
VerbOf(o) ==
    CASE o = "get" -> "read" [] o = "create" -> "create"
      [] o = "patch" -> "patch" [] o = "delete" -> "delete"
\* the groups, by their place in the search order, that expose a name
Exposing(name) == {i \in DOMAIN Apis : name \in Exposes(Apis[i])}

\* C15: the resolver looks for <verb>_namespaced_<kind> when the call has a
\* (non-empty) namespace and for <verb>_<kind> otherwise; it returns the
\* method of the first group exposing that name, the versioned groups in
\* their listed order and the generic group last, so the generic group's
\* method only when no versioned group exposes the name; the lookup fails,
\* with the helper's exception and before any call is made, exactly when no
\* group exposes the name.
C15_FirstGroupWins ==
    (op \in {"get", "create", "patch", "delete"} /\ method # NoMethod) =>
        LET name == VerbOf(op) \o (IF namespace \notin {NoNamespace, ""}
                                   THEN "_namespaced_" ELSE "_") \o kind
        IN  /\ method.name = name
            /\ method.found <=> Exposing(name) # {}
            /\ method.found =>
                  \E i \in Exposing(name) :
                      /\ method.api = Apis[i]
                      /\ \A j \in Exposing(name) : i <= j
            /\ (method.found /\ method.api = "OapiApi") =>
                  \A i \in DOMAIN VersionedApis : name \notin Exposes(VersionedApis[i])
            /\ ~method.found =>
                  /\ pc = "raised" /\ error.type = "OpenShiftException"
                  /\ sent = NoCall /\ ~answer.made
            /\ method.found => (sent # NoCall /\ sent.method = name)
            /\ (method.found /\ pc = "raised" /\ polls = 0) =>
                  error # OpenShiftException(NotFoundMessage(method, namespace), "unset")

\* a name that a versioned group and the generic group both expose is
\* resolved to the versioned one
C15_Witness ==
    /\ op = "create" /\ pc = "returned" /\ kind = "role_binding"
    /\ method.found /\ method.api = "RbacAuthorizationV1beta1Api"
    /\ method.name \in Exposes("OapiApi")
    /\ sent.method = "create_namespaced_role_binding"

\* C16, as claimed: in get_object, create_object, patch_object and
\* delete_object, whatever the namespace argument (None, the empty string
\* or a name), the method resolved is the namespaced one exactly when the
\* call made on it passes a namespace argument.
C16_ScopeAgrees ==
    (op \in {"get", "create", "patch", "delete"} /\ sent # NoCall) =>
        /\ sent.method = method.name
        /\ method.namespaced <=> sent.with_ns

====
